---- MODULE Spec2Model ----
(***************************************************************************)
(* Model of kklc-sentences.py: a script that, for each word of a fixed     *)
(* list, issues one blocking GET to the Wordnik definitions endpoint,      *)
(* prints what came back, prints a separator and sleeps one second.        *)
(*                                                                         *)
(* The remote service and the network are the environment: every reply     *)
(* they can give to a request (exception raised by requests.get, any HTTP  *)
(* status, a body that does or does not parse, records with or without a   *)
(* 'text' field) is drawn from small sets.                                 *)
(***************************************************************************)
EXTENDS Integers, Sequences, FiniteSets, TLC

(* ---------------- program constants (lines 6-10, 35, 36) --------------- *)

API_KEY == "YOUR_API_KEY"

BASE_URL == "https://api.wordnik.com/v4/word.json/"

\* The five words of line 10, romanised (taberu, shoku, shokuji, shokudou,
\* shokuyoku); the script holds them in kanji/kana.
words == <<"taberu", "shoku", "shokuji", "shokudou", "shokuyoku">>

\* time.sleep(1)
SleepSecs == 1

\* "=" * 50
SepWidth == 50

(* ---------------------------- model bounds ---------------------------- *)

\* Longest array of definition records the service returns.
MaxDefs == 2

\* Longest time (in seconds) a request stays outstanding before the
\* environment answers it, when it answers at all.
MaxWait == 1

(* ----------------------- the environment's replies -------------------- *)

\* Values of a record's 'text' field.
Texts == {"t1", "t2"}

\* A definition record of the service; the script reads only 'text'.
\* A record can come without the field.
Definitions ==
    {[text |-> t, partOfSpeech |-> "noun"] : t \in Texts}
        \cup {[partOfSpeech |-> "noun"]}

RECURSIVE ArraysOf(_, _)
ArraysOf(S, n) ==
    IF n = 0 THEN {<<>>}
    ELSE LET shorter == ArraysOf(S, n - 1)
         IN  shorter \cup {Append(a, d) : a \in {b \in shorter : Len(b) = n - 1}, d \in S}

\* JSON arrays of at most MaxDefs definition records.
Arrays == ArraysOf(Definitions, MaxDefs)

\* HTTP statuses of a response that requests.get returns: success, a
\* redirection it does not follow (no Location header), client and server errors.
Statuses == {200, 201, 300, 401, 404, 500}

\* Exceptions requests.get itself raises (all are RequestException).
GetExceptions == {"ConnectionError", "Timeout"}

ValuesOf(s) == {s[k] : k \in DOMAIN s}

(* ------------------------------ state --------------------------------- *)

VARIABLES
    pc,           \* where the script is: "loop", "get", "waiting", "sep",
                  \* "sleep", "done" (ran off the end), "crashed" (uncaught exception)
    idx,          \* how many words the for loop has taken from the list
    out,          \* lines written to stdout by the current iteration of the loop
    requests,     \* URLs of the GET requests issued so far, in order
    outstanding,  \* GET requests issued and not yet returned
    elapsed,      \* seconds since the latest request was issued
    waited,       \* seconds the outstanding request has been waiting
    trace,        \* the run so far: what the script did, in order
    reply,        \* what the request of the current iteration came back with
    jsonErrIsRequestException
                  \* whether the installed requests raises a RequestException
                  \* from response.json() (requests >= 2.27) or a plain ValueError

vars == <<pc, idx, out, requests, outstanding, elapsed, waited, trace, reply,
          jsonErrIsRequestException>>

\* A reply to a request: the exception requests.get raised (exc), or the
\* response it returned (exc = "": its status, whether its body parses as
\* JSON, and the parsed array).
Reply(exc, status, parses, data) ==
    [exc |-> exc, status |-> status, parses |-> parses, data |-> data]

NoReply == Reply("", 0, FALSE, <<>>)

Event(e, k) == [ev |-> e, word |-> k]

(* --------------------------- line formats ----------------------------- *)

RECURSIVE Repeat(_, _)
Repeat(s, n) == IF n = 0 THEN "" ELSE s \o Repeat(s, n - 1)

Url_BaseOnly(word) == BASE_URL \o "definitions?api_key=" \o API_KEY

Url(word) == BASE_URL \o word \o "/definitions?api_key=" \o API_KEY

FetchingLines(word) == <<"Fetching data for " \o word \o "...", "">>

HeaderLine(word) == "Definitions for " \o word \o ":"

BulletLine(definition) == "- " \o definition.text

NoDefinitionsLine_Header(word) == "Definitions for " \o word \o ":"

NoDefinitionsLine(word) == "No definitions found for " \o word \o "."

ErrorLine(word, e) == "Error during API request for " \o word \o ": " \o e

SeparatorLine == Repeat("=", SepWidth)

\* str(e) of the HTTPError raise_for_status raises.
HttpErrorText(status, url) == ToString(status) \o " Error for url: " \o url

JsonErrorText == "Expecting value: line 1 column 1 (char 0)"

\* response.raise_for_status(): raises for 4xx and 5xx.
RaisesForStatus(status) == 400 <= status /\ status < 600

(* --------------------------- fetch_word_data -------------------------- *)

\* Mutant: the bullets come out last record first.
RECURSIVE PrintDefinitions_Reversed(_)
PrintDefinitions_Reversed(data) ==
    IF data = <<>> THEN [printed |-> <<>>, raised |-> FALSE]
    ELSE IF "text" \notin DOMAIN Head(data) THEN [printed |-> <<>>, raised |-> TRUE]
    ELSE LET rest == PrintDefinitions_Reversed(Tail(data))
         IN  [printed |-> rest.printed \o <<BulletLine(Head(data))>>,
              raised  |-> rest.raised]

\* Mutant: a record without 'text' is skipped (definition.get('text')).
RECURSIVE PrintDefinitions_SkipMissing(_)
PrintDefinitions_SkipMissing(data) ==
    IF data = <<>> THEN [printed |-> <<>>, raised |-> FALSE]
    ELSE LET rest == PrintDefinitions_SkipMissing(Tail(data))
         IN  IF "text" \notin DOMAIN Head(data) THEN rest
             ELSE [printed |-> <<BulletLine(Head(data))>> \o rest.printed,
                   raised  |-> rest.raised]

\* The for loop of lines 24-25: one bullet per record, until a record has
\* no 'text' (KeyError).
RECURSIVE PrintDefinitions(_)
PrintDefinitions(data) ==
    IF data = <<>> THEN [printed |-> <<>>, raised |-> FALSE]
    ELSE IF "text" \notin DOMAIN Head(data) THEN [printed |-> <<>>, raised |-> TRUE]
    ELSE LET rest == PrintDefinitions(Tail(data))
         IN  [printed |-> <<BulletLine(Head(data))>> \o rest.printed,
              raised  |-> rest.raised]

\* Mutant: no except clause around requests.get.
FetchGetRaises_Uncaught(word, exc) ==
    [printed |-> <<>>, raised |-> TRUE]

\* What fetch_word_data(word) prints, and whether an exception leaves it,
\* when requests.get raises exception exc.
FetchGetRaises(word, exc) ==
    [printed |-> <<ErrorLine(word, exc)>>, raised |-> FALSE]

\* What fetch_word_data(word) prints, and whether an exception leaves it,
\* when requests.get returns a response of this status whose body parses
\* (to data) or does not.
FetchResponse(word, status, parses, data, jsonCaught) ==
    IF RaisesForStatus(status)
    THEN [printed |-> <<ErrorLine(word, HttpErrorText(status, Url(word)))>>,
          raised  |-> FALSE]
    ELSE IF ~parses
    THEN IF jsonCaught
         THEN [printed |-> <<ErrorLine(word, JsonErrorText)>>, raised |-> FALSE]
         ELSE [printed |-> <<>>, raised |-> TRUE]
    ELSE IF data # <<>>
    THEN LET loop == PrintDefinitions(data)
         IN  [printed |-> <<HeaderLine(word)>> \o loop.printed, raised |-> loop.raised]
    ELSE [printed |-> <<NoDefinitionsLine(word)>>, raised |-> FALSE]

(* ------------------------------ actions ------------------------------- *)

Init ==
    /\ pc = "loop"
    /\ idx = 0
    /\ out = <<>>
    /\ requests = <<>>
    /\ outstanding = 0
    /\ elapsed = 0
    /\ waited = 0
    /\ trace = <<>>
    /\ reply = NoReply
    /\ jsonErrIsRequestException \in BOOLEAN

\* for word in words: print(f"Fetching data for {word}...\n"); fetch_word_data(word) is entered.
Fetching ==
    /\ pc = "loop"
    /\ idx < Len(words)
    /\ idx' = idx + 1
    /\ out' = FetchingLines(words[idx + 1])
    /\ trace' = Append(trace, Event("fetching", idx + 1))
    /\ reply' = NoReply
    /\ pc' = "get"
    /\ UNCHANGED <<requests, outstanding, elapsed, waited, jsonErrIsRequestException>>

\* requests.get(url) sends the request and blocks.
Get ==
    /\ pc = "get"
    /\ requests' = Append(requests, Url(words[idx]))
    /\ outstanding' = outstanding + 1
    /\ elapsed' = 0
    /\ waited' = 0
    /\ trace' = Append(trace, Event("get", idx))
    /\ pc' = "waiting"
    /\ UNCHANGED <<idx, out, reply, jsonErrIsRequestException>>

\* Time passes while the request is outstanding.
Tick ==
    /\ pc = "waiting"
    /\ waited < MaxWait
    /\ waited' = waited + 1
    /\ elapsed' = elapsed + 1
    /\ UNCHANGED <<pc, idx, out, requests, outstanding, trace, reply, jsonErrIsRequestException>>

\* requests.get is over with reply rep; r is what the rest of
\* fetch_word_data prints and whether an exception leaves it.
Finish(kind, rep, r) ==
    /\ outstanding' = outstanding - 1
    /\ reply' = rep
    /\ out' = out \o r.printed
    /\ trace' = trace \o <<Event(kind, idx),
                           Event(IF r.raised THEN "raised" ELSE "handled", idx)>>
    /\ pc' = IF r.raised THEN "crashed" ELSE "sep"
    /\ UNCHANGED <<idx, requests, elapsed, waited, jsonErrIsRequestException>>

\* requests.get raises: the except clause prints the error line.
GetRaises ==
    /\ pc = "waiting"
    /\ \E exc \in GetExceptions :
          Finish("failure", Reply(exc, 0, FALSE, <<>>), FetchGetRaises(words[idx], exc))

\* requests.get returns a response whose body is a JSON array: lines 18-29.
Respond ==
    /\ pc = "waiting"
    /\ \E status \in Statuses, data \in Arrays :
          Finish(IF RaisesForStatus(status) THEN "failure" ELSE "response",
                 Reply("", status, TRUE, data),
                 FetchResponse(words[idx], status, TRUE, data,
                               jsonErrIsRequestException))

\* requests.get returns a response whose body is not JSON: lines 18-29.
RespondMalformed ==
    /\ pc = "waiting"
    /\ \E status \in Statuses :
          Finish(IF RaisesForStatus(status) THEN "failure" ELSE "response",
                 Reply("", status, FALSE, <<>>),
                 FetchResponse(words[idx], status, FALSE, <<>>,
                               jsonErrIsRequestException))

\* Mutant: the sleep is left out of the loop body.
Separator_NoSleep ==
    /\ pc = "sep"
    /\ out' = Append(out, SeparatorLine)
    /\ trace' = Append(trace, Event("separator", idx))
    /\ pc' = "loop"
    /\ UNCHANGED <<idx, requests, outstanding, elapsed, waited, reply, jsonErrIsRequestException>>

\* print("=" * 50)
Separator ==
    /\ pc = "sep"
    /\ out' = Append(out, SeparatorLine)
    /\ trace' = Append(trace, Event("separator", idx))
    /\ pc' = "sleep"
    /\ UNCHANGED <<idx, requests, outstanding, elapsed, waited, reply, jsonErrIsRequestException>>

\* Mutant: the sleep is taken only between two words.
Sleep_BetweenWords ==
    /\ pc = "sleep"
    /\ IF idx < Len(words)
       THEN /\ elapsed' = elapsed + SleepSecs
            /\ trace' = Append(trace, Event("sleep", idx))
       ELSE UNCHANGED <<elapsed, trace>>
    /\ pc' = "loop"
    /\ UNCHANGED <<idx, out, requests, outstanding, waited, reply, jsonErrIsRequestException>>

\* time.sleep(1)
Sleep ==
    /\ pc = "sleep"
    /\ elapsed' = elapsed + SleepSecs
    /\ trace' = Append(trace, Event("sleep", idx))
    /\ pc' = "loop"
    /\ UNCHANGED <<idx, out, requests, outstanding, waited, reply, jsonErrIsRequestException>>

\* The for loop is exhausted: the script ends.
Exit ==
    /\ pc = "loop"
    /\ idx >= Len(words)
    /\ pc' = "done"
    /\ UNCHANGED <<idx, out, requests, outstanding, elapsed, waited, trace, reply,
                   jsonErrIsRequestException>>

Next ==
    \/ Fetching
    \/ Get
    \/ Tick
    \/ GetRaises
    \/ Respond
    \/ RespondMalformed
    \/ Separator
    \/ Sleep
    \/ Exit

Spec == Init /\ [][Next]_vars

\* The script's own steps always go on (one thread, nothing to wait for but
\* the request), and every issued request eventually returns.
FairSpec ==
    /\ Spec
    /\ WF_vars(Fetching \/ Get \/ Separator \/ Sleep \/ Exit)
    /\ WF_vars(GetRaises \/ Respond \/ RespondMalformed)

(* ===================== properties of the script ===================== *)

\* fetch_word_data is over for the current word (it returned or raised).
Handled == idx > 0 /\ pc \in {"sep", "sleep", "loop", "done", "crashed"}

\* The separator of the current iteration has been printed.
AfterSeparator == idx > 0 /\ pc \in {"sleep", "loop", "done"}

\* The lines fetch_word_data printed for the current word: what follows the
\* two 'Fetching' lines, less the separator once it is printed.
ResultLines == SubSeq(out, 3, Len(out) - (IF AfterSeparator THEN 1 ELSE 0))

IsHeaderLine(l) == \E w \in ValuesOf(words) : l = "Definitions for " \o w \o ":"

IsBulletLine(l) == \E t \in Texts : l = "- " \o t

IsNoDefinitionsLine(l) ==
    \E w \in ValuesOf(words) : l = "No definitions found for " \o w \o "."

\* Error descriptions the replies of the model give rise to.
ErrorTexts ==
    GetExceptions \cup {JsonErrorText}
        \cup {HttpErrorText(st, Url(w)) : st \in Statuses, w \in ValuesOf(words)}

IsErrorLineFor(l, w) ==
    \E e \in ErrorTexts : l = "Error during API request for " \o w \o ": " \o e

IsErrorLine(l) == \E w \in ValuesOf(words) : IsErrorLineFor(l, w)

IsSeparatorLine(l) == l = "==================================================" /\ Len(l) = 50

HasText(d) == "text" \in DOMAIN d

AllHaveText(data) == \A k \in 1..Len(data) : HasText(data[k])

\* The request failed at the network layer.
NetworkFailure(r) == r.exc # ""

\* A response with a 2xx status.
Success2xx(r) == r.exc = "" /\ 200 <= r.status /\ r.status < 300

\* The outcomes C1 lists: a network failure, an HTTP error status, or a
\* success whose body is an array (empty or not) of records with a text.
ListedOutcome(r) ==
    \/ NetworkFailure(r)
    \/ r.exc = "" /\ 400 <= r.status /\ r.status < 600
    \/ Success2xx(r) /\ r.parses /\ AllHaveText(r.data)

Count(e) == Cardinality({p \in DOMAIN trace : trace[p].ev = e})

EventsOf(p, n) == [j \in 1..n |-> trace[p + j].ev]

\* --------------------------------------------------------------------
\* C1: exactly one GET per word, in list order: the k-th request issued is
\* the one for the k-th word (so none is skipped, repeated or retried),
\* a run whose replies are all among the listed outcomes (non-empty array,
\* empty array, network or HTTP-status failure) does not end early, and a
\* run that ends has issued one request for each of the five words.
C1_OneRequestPerWordInOrder ==
    /\ Len(requests) = idx - (IF pc = "get" THEN 1 ELSE 0)
    /\ Len(requests) <= Len(words)
    /\ Count("get") = Len(requests)
    /\ \A k \in 1..Len(requests) :
          requests[k] = "https://api.wordnik.com/v4/word.json/" \o words[k]
                            \o "/definitions?api_key=YOUR_API_KEY"
    /\ pc = "crashed" => ~ListedOutcome(reply)
    /\ pc = "done" => Len(requests) = Len(words)

C1_Witness ==
    /\ pc = "done"
    /\ Len(requests) = 5
    /\ Count("failure") >= 1
    /\ Count("response") >= 1

\* --------------------------------------------------------------------
\* C2: on a 2xx response whose body is an array of N > 0 records that all
\* carry a text, fetch_word_data prints the header line for the word once
\* and then exactly N bullet lines, the k-th being "- " and the text of
\* the k-th record; no 'No definitions found' line and no error line.
C2_HeaderThenOneBulletPerRecord ==
    (Handled /\ Success2xx(reply) /\ reply.parses /\ Len(reply.data) > 0
        /\ AllHaveText(reply.data))
    => /\ pc # "crashed"
       /\ Len(ResultLines) = 1 + Len(reply.data)
       /\ ResultLines[1] = "Definitions for " \o words[idx] \o ":"
       /\ \A k \in 1..Len(reply.data) :
             ResultLines[1 + k] = "- " \o reply.data[k].text
       /\ \A j \in 1..Len(ResultLines) :
             /\ ~IsNoDefinitionsLine(ResultLines[j])
             /\ ~IsErrorLine(ResultLines[j])
             /\ IsHeaderLine(ResultLines[j]) <=> j = 1

C2_Witness ==
    /\ Handled
    /\ Success2xx(reply)
    /\ reply.parses
    /\ Len(reply.data) = 2
    /\ AllHaveText(reply.data)
    /\ reply.data[1].text # reply.data[2].text
    /\ Len(ResultLines) = 3

\* What C3 says of a word whose request failed: one error line naming the
\* word and nothing else from fetch_word_data, which returns normally.
ErrorLineOnly ==
    /\ pc # "crashed"
    /\ Len(ResultLines) = 1
    /\ IsErrorLineFor(ResultLines[1], words[idx])
    /\ ~IsHeaderLine(ResultLines[1])
    /\ ~IsBulletLine(ResultLines[1])

\* What C3 says of the words after a failed one: in the run so far every
\* failure is followed by its handling, the separator, the sleep and then
\* the next word and its request; the run does not end (normally or not)
\* before the word after a failed one is requested, and a run that reaches
\* the end of the loop has requested every word.
RunGoesOnAfterFailure ==
    /\ \A p \in DOMAIN trace :
          trace[p].ev = "failure" =>
             LET k == trace[p].word
                 follows == <<Event("handled", k), Event("separator", k),
                              Event("sleep", k), Event("fetching", k + 1),
                              Event("get", k + 1)>>
             IN  /\ \A j \in 1..5 : p + j <= Len(trace) => trace[p + j] = follows[j]
                 /\ (pc \in {"done", "crashed"} /\ k < Len(words)) => Len(requests) > k
    /\ pc = "done" => Len(requests) = Len(words)

\* --------------------------------------------------------------------
\* C3 as stated: a request that fails at the network layer or comes back
\* with a non-2xx status gives exactly one error line naming the word, no
\* header and no bullet, and fetch_word_data returns normally so that the
\* later words are still requested.
C3_Original ==
    /\ (Handled /\ (NetworkFailure(reply) \/ ~Success2xx(reply))) => ErrorLineOnly
    /\ RunGoesOnAfterFailure

\* C3 (amended): a request that fails at the network layer or comes back
\* with a 4xx or 5xx status (the statuses raise_for_status raises for)
\* gives exactly one error line naming the word, no header and no bullet,
\* and fetch_word_data returns normally so that the later words are still
\* requested.
C3_ErrorLineAndRunGoesOn ==
    /\ (Handled /\ (NetworkFailure(reply)
                       \/ (400 <= reply.status /\ reply.status < 600))) => ErrorLineOnly
    /\ RunGoesOnAfterFailure

C3_Witness ==
    /\ pc = "done"
    /\ \E p, q \in DOMAIN trace :
          /\ trace[p] = Event("failure", 2)
          /\ trace[q] = Event("get", 5)
    /\ reply.exc = ""
    /\ reply.status = 404
    /\ Len(ResultLines) = 1

\* --------------------------------------------------------------------
\* C4: on a 2xx response whose parsed body is the empty array, what
\* fetch_word_data prints is exactly the one line
\* 'No definitions found for <word>.': no header, bullet or error line.
C4_EmptyArrayOneLine ==
    (Handled /\ Success2xx(reply) /\ reply.parses /\ reply.data = <<>>)
    => /\ pc # "crashed"
       /\ ResultLines = <<"No definitions found for " \o words[idx] \o ".">>
       /\ \A j \in 1..Len(ResultLines) :
             /\ ~IsHeaderLine(ResultLines[j])
             /\ ~IsBulletLine(ResultLines[j])
             /\ ~IsErrorLine(ResultLines[j])

C4_Witness ==
    /\ Handled
    /\ Success2xx(reply)
    /\ reply.parses
    /\ reply.data = <<>>
    /\ Len(ResultLines) = 1

\* --------------------------------------------------------------------
\* C5 as stated: every word whose 'Fetching' line was printed gets exactly
\* one separator line, whatever the outcome of its request: once
\* fetch_word_data is over for a word and the script is between words or
\* at its end, there are as many separator lines as 'Fetching' lines.
C5_SeparatorPerFetching ==
    (idx > 0 /\ pc \in {"loop", "done", "crashed"})
    => /\ Count("separator") = Count("fetching")
       /\ IsSeparatorLine(out[Len(out)])
       /\ Cardinality({j \in DOMAIN out : IsSeparatorLine(out[j])}) = 1

\* --------------------------------------------------------------------
\* C6 as stated: nothing the service can answer for a word (malformed JSON
\* and a record without 'text' included) ends the run abnormally.
C6_NothingIsFatal == pc # "crashed"

\* --------------------------------------------------------------------
\* C7: at most one request is outstanding; between two successive requests
\* the reply to the first is received and handled, the separator is
\* printed and exactly one sleep is taken, in this order, whether the
\* first succeeded or failed; when a request is about to be issued, the
\* time since the previous one is the time that one took plus the one
\* second of the sleep.
C7_SequentialAndRateLimited ==
    /\ outstanding \in {0, 1}
    /\ outstanding = 1 <=> pc = "waiting"
    /\ \A p, q \in DOMAIN trace :
          (/\ p < q
           /\ trace[p].ev = "get"
           /\ trace[q].ev = "get"
           /\ \A m \in (p + 1)..(q - 1) : trace[m].ev # "get")
          => /\ q = p + 6
             /\ trace[q].word = trace[p].word + 1
             /\ \A m \in (p + 1)..(p + 4) : trace[m].word = trace[p].word
             /\ EventsOf(p, 5) \in
                   {<<r, "handled", "separator", "sleep", "fetching">> :
                        r \in {"response", "failure"}}
    /\ (pc = "get" /\ requests # <<>>) => elapsed - waited = 1

C7_Witness ==
    /\ pc = "waiting"
    /\ Len(requests) = 3
    /\ waited = 1
    /\ \E p, q \in DOMAIN trace :
          trace[p] = Event("failure", 1) /\ trace[q] = Event("response", 2)

\* Position of the first record without 'text' (0 when there is none).
FirstWithoutText(data) ==
    IF AllHaveText(data) THEN 0
    ELSE CHOOSE k \in 1..Len(data) :
            ~HasText(data[k]) /\ \A j \in 1..(k - 1) : HasText(data[j])

\* --------------------------------------------------------------------
\* C8: when a successful response holds a record without 'text', the first
\* at position k, the exception is not caught: the header and the bullets
\* of records 1..k-1 are printed and nothing more (no further bullet, no
\* error line, no separator), no sleep follows, and no later word is ever
\* requested: the script has stopped.
C8_MissingTextStopsTheRun ==
    (Handled /\ reply.exc = "" /\ ~(400 <= reply.status /\ reply.status < 600)
        /\ reply.parses /\ ~AllHaveText(reply.data))
    => LET k == FirstWithoutText(reply.data)
       IN  /\ pc = "crashed"
           /\ Len(ResultLines) = k
           /\ ResultLines[1] = "Definitions for " \o words[idx] \o ":"
           /\ \A j \in 1..(k - 1) : ResultLines[1 + j] = "- " \o reply.data[j].text
           /\ Len(out) = 2 + k
           /\ \A j \in DOMAIN out : ~IsErrorLine(out[j]) /\ ~IsSeparatorLine(out[j])
           /\ trace[Len(trace)] = Event("raised", idx)
           /\ Len(requests) = idx
           /\ ~ENABLED Next

C8_Witness ==
    /\ pc = "crashed"
    /\ idx = 2
    /\ Success2xx(reply)
    /\ Len(reply.data) = 2
    /\ HasText(reply.data[1])
    /\ ~HasText(reply.data[2])

\* --------------------------------------------------------------------
\* C9 as stated: when every issued request eventually returns, the main
\* loop reaches its end with all five words processed.
C9_ReachesTheEnd == <>(pc = "done" /\ Len(requests) = Len(words))

\* --------------------------------------------------------------------
\* C10: the sleep is taken once per processed word, not once per gap: a
\* run that has processed all the words has slept as many times as there
\* are words (five), the last thing it did before leaving the loop is the
\* sleep after the last word's separator, and no request follows it.
C10_OneSleepPerWord ==
    /\ pc = "loop" => Count("sleep") = idx
    /\ pc = "done" =>
          /\ Count("sleep") = Len(words)
          /\ Count("sleep") = 5
          /\ Len(trace) >= 2
          /\ trace[Len(trace)] = Event("sleep", Len(words))
          /\ trace[Len(trace) - 1] = Event("separator", Len(words))
          /\ Count("get") = Len(words)

C10_Witness == pc = "done" /\ Count("sleep") = 5
====
